---- MODULE Spec2Model ----
(***************************************************************************)
(* Model of mockito's server pool, request matching and response writer     *)
(* (src/src/server.rs).                                                    *)
(*                                                                         *)
(* State: the pool's slots (one Mutex<Server> each: lock holder,           *)
(* listening_addr, mocks, unmatched_requests), and for every thread its    *)
(* position, its thread-local LOCAL_SERVER binding and its progress        *)
(* through find_server.  Threads are the test threads 1..NumTests and one  *)
(* accept-loop thread per slot, spawned by Server::try_start.  A response   *)
(* is the sequence of byte strings the writer put on the stream.           *)
(***************************************************************************)
EXTENDS Integers, Sequences, FiniteSets, TLC

\* ---------------------------------------------------------------- bounds
PoolSize  == 2      \* slots of the pool in the model (POOL_RC holds 4, server.rs:143)
NumTests  == 2      \* test threads
MaxMocks  == 1      \* mocks a server takes under the pool specification
MaxReqs   == 2      \* requests sent under the pool specification
MaxList   == 2      \* length of the mock list under the matching specification
MatchReqs == 3      \* requests sent under the matching specification
MaxHeaders == 2     \* response headers of a mock under the writer specification
WireReqs  == 2      \* connections made under the writer specification

\* ---------------------------------------------------------------- values
None     == -1      \* Option::None for listening_addr, bounds, LOCAL_SERVER, lock holder
Slots    == 0 .. (PoolSize - 1)
Tests    == 1 .. NumTests
Acc(s)   == NumTests + 1 + s            \* the accept-loop thread spawned for slot s
AccThreads == { Acc(s) : s \in Slots }
Threads  == Tests \cup AccThreads
SlotOf(a) == a - NumTests - 1           \* the slot whose try_start spawned thread a

AnyPath  == "*"                         \* the path matcher Matcher::Any

\* Parsed requests.  ok is Request::is_ok(), error is Request::error() (an
\* Option, << >> for None), version is the (major, minor) pair of the request.
Parsed(method, path, version) ==
  [method |-> method, path |-> path, headers |-> {}, body |-> "",
   version |-> version, ok |-> TRUE, error |-> << >>]
Requests == { Parsed("GET", "/a", <<1, 1>>),
              Parsed("GET", "/b", <<1, 1>>),
              Parsed("HEAD", "/a", <<1, 1>>),
              Parsed("GET", "/b", <<1, 0>>) }

\* What Request::from leaves of a stream it could not parse, with or without
\* a diagnostic message
Unparsed(error) ==
  [method |-> "", path |-> "", headers |-> {}, body |-> "",
   version |-> <<1, 1>>, ok |-> FALSE, error |-> error]
BadRequests == { Unparsed(<< "Bad request line" >>), Unparsed(<< >>) }
Opt      == {None, 1, 2}                 \* Option<usize> of an expectation bound

VARIABLES
  holder,             \* holder[s]: thread owning the MutexGuard of slot s, or None
  listening_addr,     \* listening_addr[s]: None, or the address (s) of server s
  mocks,              \* mocks[s]: Vec<Mock> of server s, in registration order
  unmatched_requests, \* unmatched_requests[s]: Vec<Request> of server s
  pc,                 \* pc[t]: position of thread t
  bound,              \* bound[t]: slot held in thread t's LOCAL_SERVER, or None
  scanIdx,            \* scanIdx[t]: next slot find_server's find_map will try_lock
  via,                \* via[t]: how LOCAL_SERVER was obtained: "none", "try", "block"
  conn,               \* conn[s]: connections waiting in listener s's backlog (FIFO)
  cur,                \* cur[a]: <<[client, req]>> the stream and request accept thread a
                      \*         is serving, << >> between connections
  sel,                \* sel[a]: index of the mock chosen by handle_request, 0 = no mock
  got,                \* got[t]: what the writer put on the stream of test thread t's
                      \*         last connection, NoResponse before anything was written
  budget,             \* number of requests the test threads will still send
  chan,               \* chan[s]: the mpsc channel of the running try_start of server s:
                      \*          << >>, or << addr >> with the Option<SocketAddr> sent
  loops,              \* loops[s]: threads that entered the accept loop of server s
  accepted,           \* accepted[a]: connections listener.incoming() gave thread a as Ok
  written,            \* written[a]: calls of the response writer made by thread a
  handled             \* handled[a]: calls of handle_request that returned in thread a

vars == << holder, listening_addr, mocks, unmatched_requests, pc, bound, scanIdx,
           via, conn, cur, sel, got, budget, chan, loops, accepted, written, handled >>

\* ------------------------------------------------------ request matching
\* Mock::method_matches
method_matches(mock, request) == mock.method = request.method

\* Mock::path_matches: the path matcher is an exact path or Matcher::Any
path_matches(mock, request) == mock.path = AnyPath \/ mock.path = request.path

\* Mock::headers_match: every (field, expected) pair of the mock accepts the
\* request's values of that field; a mock's pair here expects the field present
headers_match(mock, request) == \A field \in mock.headers : field \in request.headers

\* Mock::body_matches: text match or binary match of the body matcher
body_matches(mock, request) == mock.bodyMatcher = "Any" \/ mock.bodyMatcher = request.body

\* impl PartialEq<Request> for &mut Mock
Matches(mock, request) ==
  /\ method_matches(mock, request)
  /\ path_matches(mock, request)
  /\ headers_match(mock, request)
  /\ body_matches(mock, request)

\* Mutant of is_missing_hits: with both bounds set the lower bound decides
is_missing_hits_lower(m) ==
  CASE m.at_least # None /\ m.at_most # None -> m.hits < m.at_least
    [] m.at_least # None /\ m.at_most = None -> m.hits < m.at_least
    [] m.at_least = None /\ m.at_most # None -> m.hits < m.at_most
    [] m.at_least = None /\ m.at_most = None -> m.hits < 1

\* Mock::is_missing_hits
is_missing_hits(m) ==
  CASE m.at_least # None /\ m.at_most # None -> m.hits < m.at_most
    [] m.at_least # None /\ m.at_most = None -> m.hits < m.at_least
    [] m.at_least = None /\ m.at_most # None -> m.hits < m.at_most
    [] m.at_least = None /\ m.at_most = None -> m.hits < 1

\* handle_request: server.mocks.iter_mut().filter(|mock| mock == &request).collect()
\* as the indices (into the mock list) of the collected references, in list order
matchings_mocks(ms, request) ==
  SelectSeq([i \in 1 .. Len(ms) |-> i], LAMBDA i : Matches(ms[i], request))

\* handle_request: matchings_mocks.iter_mut().find(|m| m.is_missing_hits());
\* 0 stands for Option::None
RECURSIVE find_missing(_, _)
find_missing(ms, idxs) ==
  IF idxs = << >> THEN 0
  ELSE IF is_missing_hits(ms[Head(idxs)]) THEN Head(idxs)
  ELSE find_missing(ms, Tail(idxs))

\* Mutant of select_mock: the first matching mock wins
select_mock_first(ms, request) ==
  LET mm == matchings_mocks(ms, request)
  IN  IF mm # << >> THEN mm[1] ELSE 0

\* Mutant of select_mock: no fallback to the last matching mock
select_mock_no_fallback(ms, request) ==
  find_missing(ms, matchings_mocks(ms, request))

\* handle_request: Some(m) => Some(m), None => matchings_mocks.last_mut()
select_mock(ms, request) ==
  LET mm == matchings_mocks(ms, request)
      maybe_missing_hits == find_missing(ms, mm)
  IN  IF maybe_missing_hits # 0 THEN maybe_missing_hits
      ELSE IF mm # << >> THEN mm[Len(mm)]
      ELSE 0

\* ------------------------------------------------------ response writer
\* Option<T>: << >> is None, << x >> is Some(x)
Some(x) == << x >>

\* Body::Bytes(bytes) and Body::Fn(cb).  A producer callback is what it does
\* with the writer it is given: the chunks it writes, then the io::Result it
\* returns
Bytes(bytes) == [kind |-> "Bytes", bytes |-> bytes]
Fn(cb) == [kind |-> "Fn", cb |-> cb]
Producer(chunks, result) == [chunks |-> chunks, result |-> result]

\* What a stream carries, and what the writer returned, before any write
NoResponse == [head |-> << >>, body |-> << >>, result |-> "None", cb_called |-> FALSE]

\* Outcomes of the stream's writes during one call of the writer: every write
\* succeeds, or the write of the head, the writes of the body, or the flush fails
IO == {"ok", "head", "body", "flush"}

\* format!("HTTP/{}.{} {}\r\n", version.0, version.1, status)
StatusLine(version, status) ==
  "HTTP/" \o ToString(version[1]) \o "." \o ToString(version[2]) \o " " \o status \o "\r\n"

\* key, b": ", value, b"\r\n"
HeaderLine(key, value) == key \o ": " \o value \o "\r\n"

\* Chunked: a write of the producer is framed as <hex-length>\r\n<data>\r\n,
\* finish() writes the zero-length chunk
HexDigits == << "0", "1", "2", "3", "4", "5", "6", "7", "8", "9", "a", "b", "c", "d", "e", "f" >>
RECURSIVE Hex(_)
Hex(n) == IF n < 16 THEN HexDigits[n + 1] ELSE Hex(n \div 16) \o HexDigits[(n % 16) + 1]
Chunk(data) == Hex(Len(data)) \o "\r\n" \o data \o "\r\n"
Terminator == "0\r\n\r\n"

\* Mutant of respond_bytes: the terminating chunk is written whatever the
\* producer callback returned, and a Body::Fn response drops the caller's
\* content-length header
respond_bytes_always_finish(version, status, headers, body, io) ==
  LET hs == IF headers = << >> THEN << >> ELSE headers[1]
      chunked == body # << >> /\ body[1].kind = "Fn"
      kept == SelectSeq(hs, LAMBDA h : ~(chunked /\ h[1] = "content-length"))
      has_content_length_header == \E i \in 1 .. Len(hs) : hs[i][1] = "content-length"
      synthesized ==
        IF body = << >> THEN << >>
        ELSE IF body[1].kind = "Bytes"
        THEN IF ~has_content_length_header
             THEN << "content-length: " \o ToString(Len(body[1].bytes)) \o "\r\n" >>
             ELSE << >>
        ELSE << "transfer-encoding: chunked\r\n" >>
      response == << StatusLine(version, status) >>
                    \o [i \in 1 .. Len(kept) |-> HeaderLine(kept[i][1], kept[i][2])]
                    \o synthesized \o << "\r\n" >>
      flush == IF io = "flush" THEN "Err" ELSE "Ok"
  IN  IF io = "head"
      THEN [head |-> << >>, body |-> << >>, result |-> "Err", cb_called |-> FALSE]
      ELSE IF body = << >>
      THEN [head |-> response, body |-> << >>, result |-> flush, cb_called |-> FALSE]
      ELSE IF body[1].kind = "Bytes"
      THEN IF io = "body"
           THEN [head |-> response, body |-> << >>, result |-> "Err", cb_called |-> FALSE]
           ELSE [head |-> response,
                 body |-> IF body[1].bytes = "" THEN << >> ELSE << body[1].bytes >>,
                 result |-> flush, cb_called |-> FALSE]
      ELSE LET cb == body[1].cb
               chunks == [i \in 1 .. Len(cb.chunks) |-> Chunk(cb.chunks[i])]
           IN  IF io = "body"
               THEN [head |-> response, body |-> << >>, result |-> "Err", cb_called |-> TRUE]
               ELSE [head |-> response, body |-> chunks \o << Terminator >>,
                     result |-> IF cb.result = "Err" THEN "Err" ELSE flush,
                     cb_called |-> TRUE]

\* Mutant of respond_bytes: content-length is synthesized for every Body::Bytes
respond_bytes_always_length(version, status, headers, body, io) ==
  LET hs == IF headers = << >> THEN << >> ELSE headers[1]
      synthesized ==
        IF body = << >> THEN << >>
        ELSE IF body[1].kind = "Bytes"
        THEN << "content-length: " \o ToString(Len(body[1].bytes)) \o "\r\n" >>
        ELSE << "transfer-encoding: chunked\r\n" >>
      response == << StatusLine(version, status) >>
                    \o [i \in 1 .. Len(hs) |-> HeaderLine(hs[i][1], hs[i][2])]
                    \o synthesized \o << "\r\n" >>
      flush == IF io = "flush" THEN "Err" ELSE "Ok"
  IN  IF io = "head"
      THEN [head |-> << >>, body |-> << >>, result |-> "Err", cb_called |-> FALSE]
      ELSE IF body = << >>
      THEN [head |-> response, body |-> << >>, result |-> flush, cb_called |-> FALSE]
      ELSE IF body[1].kind = "Bytes"
      THEN IF io = "body"
           THEN [head |-> response, body |-> << >>, result |-> "Err", cb_called |-> FALSE]
           ELSE [head |-> response,
                 body |-> IF body[1].bytes = "" THEN << >> ELSE << body[1].bytes >>,
                 result |-> flush, cb_called |-> FALSE]
      ELSE LET cb == body[1].cb
               chunks == [i \in 1 .. Len(cb.chunks) |-> Chunk(cb.chunks[i])]
           IN  IF io = "body"
               THEN [head |-> response, body |-> << >>, result |-> "Err", cb_called |-> TRUE]
               ELSE IF cb.result = "Err"
               THEN [head |-> response, body |-> chunks, result |-> "Err", cb_called |-> TRUE]
               ELSE [head |-> response, body |-> chunks \o << Terminator >>,
                     result |-> flush, cb_called |-> TRUE]

\* respond_bytes: what is written to the stream (head: the lines of the
\* response buffer, written at once; body: the writes that follow), the
\* io::Result returned, and whether the producer callback was called.
\* headers and body are Options.  A write that fails puts nothing on the
\* stream and ends the function (the ? operator); when the writes of the body
\* fail, the producer callback returns the error of its first write.
respond_bytes(version, status, headers, body, io) ==
  LET hs == IF headers = << >> THEN << >> ELSE headers[1]
      has_content_length_header == \E i \in 1 .. Len(hs) : hs[i][1] = "content-length"
      synthesized ==
        IF body = << >> THEN << >>
        ELSE IF body[1].kind = "Bytes"
        THEN IF ~has_content_length_header
             THEN << "content-length: " \o ToString(Len(body[1].bytes)) \o "\r\n" >>
             ELSE << >>
        ELSE << "transfer-encoding: chunked\r\n" >>
      response == << StatusLine(version, status) >>
                    \o [i \in 1 .. Len(hs) |-> HeaderLine(hs[i][1], hs[i][2])]
                    \o synthesized \o << "\r\n" >>
      flush == IF io = "flush" THEN "Err" ELSE "Ok"
  IN  IF io = "head"
      THEN [head |-> << >>, body |-> << >>, result |-> "Err", cb_called |-> FALSE]
      ELSE IF body = << >>
      THEN [head |-> response, body |-> << >>, result |-> flush, cb_called |-> FALSE]
      ELSE IF body[1].kind = "Bytes"
      THEN IF io = "body"
           THEN [head |-> response, body |-> << >>, result |-> "Err", cb_called |-> FALSE]
           ELSE [head |-> response,
                 body |-> IF body[1].bytes = "" THEN << >> ELSE << body[1].bytes >>,
                 result |-> flush, cb_called |-> FALSE]
      ELSE LET cb == body[1].cb
               chunks == [i \in 1 .. Len(cb.chunks) |-> Chunk(cb.chunks[i])]
           IN  IF io = "body"
               THEN [head |-> response, body |-> << >>, result |-> "Err", cb_called |-> TRUE]
               ELSE IF cb.result = "Err"
               THEN [head |-> response, body |-> chunks, result |-> "Err", cb_called |-> TRUE]
               ELSE [head |-> response, body |-> chunks \o << Terminator >>,
                     result |-> flush, cb_called |-> TRUE]

\* respond: the body, when there is one, is sent as Body::Bytes; an Err of
\* respond_bytes is reported on stderr and dropped
respond(version, status, headers, body, io) ==
  respond_bytes(version, status, headers,
                IF body = << >> THEN << >> ELSE Some(Bytes(body[1])), io)

\* ---------------------------------------------------------------- mocks
\* The bytes of the response body of the mocks of test thread t
BodyOf(t) == "mock of " \o ToString(t)

\* The mocks a test registers: matcher fields, expectation bounds, response.
\* The response body names the registering thread.
Templates(t) ==
  { [method |-> mp[1], path |-> mp[2], headers |-> {}, bodyMatcher |-> "Any",
     at_least |-> lo, at_most |-> hi, hits |-> 0,
     response |-> [status |-> "200 OK", headers |-> << >>, body |-> Bytes(BodyOf(t))]] :
      mp \in { <<"GET", "/a">>, <<"GET", AnyPath>> },
      lo \in Opt, hi \in Opt }

\* The mocks registered under the pool specification: unbounded GET mocks
PoolTemplates(t) ==
  { m \in Templates(t) : m.method = "GET" /\ m.path = "/a"
                          /\ m.at_least = None /\ m.at_most = None }

\* The requests sent under the pool specification
PoolRequests == { r \in Requests : r.method = "GET" /\ r.path = "/a" }

\* Under the pool and the matching specification every accept succeeds and
\* every write of a response succeeds
PoolIO == {"ok"}

\* The requests sent under the matching specification
MatchRequests == { r \in Requests : r.method = "GET" /\ r.version = <<1, 1>> }

\* ----------------------------------------------------------------- Init
\* Server::new for every slot (ServerPool::new); no thread has touched the pool
Init ==
  /\ holder = [s \in Slots |-> None]
  /\ listening_addr = [s \in Slots |-> None]
  /\ mocks = [s \in Slots |-> << >>]
  /\ unmatched_requests = [s \in Slots |-> << >>]
  /\ pc = [t \in Threads |-> IF t \in Tests THEN "scan" ELSE "none"]
  /\ bound = [t \in Threads |-> None]
  /\ scanIdx = [t \in Threads |-> 0]
  /\ via = [t \in Threads |-> "none"]
  /\ conn = [s \in Slots |-> << >>]
  /\ cur = [a \in AccThreads |-> << >>]
  /\ sel = [a \in AccThreads |-> 0]
  /\ got = [t \in Tests |-> NoResponse]
  /\ budget = MaxReqs
  /\ chan = [s \in Slots |-> << >>]
  /\ loops = [s \in Slots |-> 0]
  /\ accepted = [a \in AccThreads |-> 0]
  /\ written = [a \in AccThreads |-> 0]
  /\ handled = [a \in AccThreads |-> 0]

\* Where a thread continues once LOCAL_SERVER is initialised: a test thread
\* goes on with its test, an accept thread with handle_request's matching
AfterBind(t) == IF t \in Tests THEN "ready" ELSE "match"

\* ---------------------------------------------------------- find_server
\* One step of find_map(|server| server.try_lock().ok()) on slot scanIdx[t]
find_server_try_lock(t) ==
  /\ pc[t] = "scan"
  /\ LET i == scanIdx[t] IN
       IF holder[i] = None
       THEN /\ holder' = [holder EXCEPT ![i] = t]
            /\ bound' = [bound EXCEPT ![t] = i]
            /\ via' = [via EXCEPT ![t] = "try"]
            /\ pc' = [pc EXCEPT ![t] = AfterBind(t)]
            /\ UNCHANGED scanIdx
       ELSE /\ scanIdx' = [scanIdx EXCEPT ![t] = i + 1]
            /\ pc' = [pc EXCEPT ![t] = IF i + 1 = PoolSize THEN "blocked" ELSE "scan"]
            /\ UNCHANGED << holder, bound, via >>
  /\ UNCHANGED << listening_addr, mocks, unmatched_requests, conn, cur, sel, got, budget,
                  chan, loops, accepted, written, handled >>

\* Mutant of find_server_lock: the fallback takes slot 0 without waiting for it
find_server_lock_no_wait(t) ==
  /\ pc[t] = "blocked"
  /\ holder' = [holder EXCEPT ![0] = t]
  /\ bound' = [bound EXCEPT ![t] = 0]
  /\ via' = [via EXCEPT ![t] = "block"]
  /\ pc' = [pc EXCEPT ![t] = AfterBind(t)]
  /\ UNCHANGED << listening_addr, mocks, unmatched_requests, scanIdx, conn, cur, sel,
                  got, budget, chan, loops, accepted, written, handled >>

\* Mutant of find_server_lock: the fallback blocks on the last slot instead of slot 0
find_server_lock_last_slot(t) ==
  /\ pc[t] = "blocked"
  /\ holder[PoolSize - 1] = None
  /\ holder' = [holder EXCEPT ![PoolSize - 1] = t]
  /\ bound' = [bound EXCEPT ![t] = PoolSize - 1]
  /\ via' = [via EXCEPT ![t] = "block"]
  /\ pc' = [pc EXCEPT ![t] = AfterBind(t)]
  /\ UNCHANGED << listening_addr, mocks, unmatched_requests, scanIdx, conn, cur, sel,
                  got, budget, chan, loops, accepted, written, handled >>

\* or_else(|| self.servers[0].lock().ok()): returns once slot 0 is free
find_server_lock(t) ==
  /\ pc[t] = "blocked"
  /\ holder[0] = None
  /\ holder' = [holder EXCEPT ![0] = t]
  /\ bound' = [bound EXCEPT ![t] = 0]
  /\ via' = [via EXCEPT ![t] = "block"]
  /\ pc' = [pc EXCEPT ![t] = AfterBind(t)]
  /\ UNCHANGED << listening_addr, mocks, unmatched_requests, scanIdx, conn, cur, sel,
                  got, budget, chan, loops, accepted, written, handled >>

\* --------------------------------------------------------- test threads
\* Registration of a mock on the calling thread's server: the mock is pushed
\* at the end of LOCAL_SERVER's mock list with hits = 0
Register(t, m) ==
  /\ pc[t] = "ready"
  /\ Len(mocks[bound[t]]) < MaxMocks
  /\ mocks' = [mocks EXCEPT ![bound[t]] = Append(@, m)]
  /\ UNCHANGED << holder, listening_addr, unmatched_requests, pc, bound, scanIdx, via,
                  conn, cur, sel, got, budget, chan, loops, accepted, written, handled >>

\* Mutant of try_start: the thread is spawned whether or not the server listens
try_start_always_spawns(t, s) ==
  pc' = [pc EXCEPT ![t] = "recv", ![Acc(s)] = "bind"]

\* Server::try_start on server s, called by thread t, up to rx.recv(): it
\* returns at once when listening_addr is set; otherwise it creates the channel
\* and spawns the thread that binds the listener, and blocks in rx.recv()
try_start(t, s) ==
  IF listening_addr[s] # None
  THEN UNCHANGED pc
  ELSE pc' = [pc EXCEPT ![t] = "recv", ![Acc(s)] = "bind"]

\* address(): LOCAL_SERVER.with(..), server.try_start(); on a listening
\* server try_start returns and listening_addr.expect(..) gives the address
address(t) ==
  /\ pc[t] = "ready"
  /\ try_start(t, bound[t])
  /\ UNCHANGED << holder, listening_addr, mocks, unmatched_requests, bound, scanIdx, via,
                  conn, cur, sel, got, budget, chan, loops, accepted, written, handled >>

\* The thread spawned by try_start: TcpListener::bind("127.0.0.1:0").  On Ok
\* it sends Some(addr) and enters the accept loop; on Err it sends None and
\* returns.  The address of server s is s.
bind(a, ok) ==
  /\ pc[a] = "bind"
  /\ LET s == SlotOf(a) IN
       IF ok
       THEN /\ chan' = [chan EXCEPT ![s] = << s >>]
            /\ pc' = [pc EXCEPT ![a] = "listen"]
            /\ loops' = [loops EXCEPT ![s] = @ + 1]
       ELSE /\ chan' = [chan EXCEPT ![s] = << None >>]
            /\ pc' = [pc EXCEPT ![a] = "none"]
            /\ UNCHANGED loops
  /\ UNCHANGED << holder, listening_addr, mocks, unmatched_requests, bound, scanIdx, via,
                  conn, cur, sel, got, budget, accepted, written, handled >>

\* Mutant of try_start_recv: try_start does not wait for the spawned thread and
\* takes the address the listener is going to have
try_start_recv_no_wait(t) ==
  /\ pc[t] = "recv"
  /\ LET s == bound[t] IN
       /\ listening_addr' = [listening_addr EXCEPT ![s] = s]
       /\ chan' = [chan EXCEPT ![s] = << >>]
       /\ pc' = [pc EXCEPT ![t] = "ready"]
  /\ UNCHANGED << holder, mocks, unmatched_requests, bound, scanIdx, via, conn, cur, sel,
                  got, budget, loops, accepted, written, handled >>

\* The end of try_start and the rest of address():
\* self.listening_addr = rx.recv().ok().and_then(|addr| addr), then
\* listening_addr.expect("server should be listening"), which panics on None
try_start_recv(t) ==
  /\ pc[t] = "recv"
  /\ LET s == bound[t] IN
       /\ chan[s] # << >>
       /\ listening_addr' = [listening_addr EXCEPT ![s] = chan[s][1]]
       /\ chan' = [chan EXCEPT ![s] = << >>]
       /\ pc' = [pc EXCEPT ![t] = IF chan[s][1] = None THEN "panic" ELSE "ready"]
  /\ UNCHANGED << holder, mocks, unmatched_requests, bound, scanIdx, via, conn, cur, sel,
                  got, budget, loops, accepted, written, handled >>

\* The test connects to the address of its own server (as address() returned
\* it), sends request r and blocks reading the response
SendRequest(t, r) ==
  /\ pc[t] = "ready"
  /\ listening_addr[bound[t]] # None
  /\ budget > 0
  /\ conn' = [conn EXCEPT ![listening_addr[bound[t]]] = Append(@, [client |-> t, req |-> r])]
  /\ pc' = [pc EXCEPT ![t] = "wait"]
  /\ got' = [got EXCEPT ![t] = NoResponse]
  /\ budget' = budget - 1
  /\ UNCHANGED << holder, listening_addr, mocks, unmatched_requests, bound, scanIdx, via,
                  cur, sel, chan, loops, accepted, written, handled >>

\* The test thread ends, by returning or by the unwinding of a panic; its
\* thread-local MutexGuard is dropped by the thread-local destructor, unlocking
\* the slot (the thread is not panicking any more: the mutex is not poisoned)
Terminate(t) ==
  /\ t \in Tests
  /\ pc[t] \in {"ready", "panic"}
  /\ pc' = [pc EXCEPT ![t] = "done"]
  /\ holder' = [holder EXCEPT ![bound[t]] = None]
  /\ UNCHANGED << listening_addr, mocks, unmatched_requests, bound, scanIdx, via, conn,
                  cur, sel, got, budget, chan, loops, accepted, written, handled >>

\* ---------------------------------------------------------- accept loop
\* Mutant of Accept: handle_request calls find_server for every request
Accept_find_server_every_time(a, ok) ==
  /\ pc[a] = "listen"
  /\ conn[SlotOf(a)] # << >>
  /\ cur' = [cur EXCEPT ![a] = << Head(conn[SlotOf(a)]) >>]
  /\ conn' = [conn EXCEPT ![SlotOf(a)] = Tail(@)]
  /\ pc' = [pc EXCEPT ![a] = "scan"]
  /\ scanIdx' = [scanIdx EXCEPT ![a] = 0]
  /\ accepted' = [accepted EXCEPT ![a] = @ + 1]
  /\ UNCHANGED << holder, listening_addr, mocks, unmatched_requests, bound, via,
                  sel, got, budget, chan, loops, written, handled >>

\* Mutant of Accept: a failed accept ends the accept loop
Accept_failure_ends_loop(a, ok) ==
  /\ pc[a] = "listen"
  /\ conn[SlotOf(a)] # << >>
  /\ LET c == Head(conn[SlotOf(a)]) IN
       IF ok
       THEN /\ cur' = [cur EXCEPT ![a] = << c >>]
            /\ accepted' = [accepted EXCEPT ![a] = @ + 1]
            /\ pc' = [pc EXCEPT ![a] = IF ~c.req.ok THEN "respond_err"
                                       ELSE IF bound[a] = None THEN "scan" ELSE "match"]
       ELSE /\ pc' = [pc EXCEPT ![a] = "none", ![c.client] = "ready"]
            /\ UNCHANGED << cur, accepted >>
  /\ conn' = [conn EXCEPT ![SlotOf(a)] = Tail(@)]
  /\ UNCHANGED << holder, listening_addr, mocks, unmatched_requests, bound, scanIdx, via,
                  sel, got, budget, chan, loops, written, handled >>

\* One turn of `for stream in listener.incoming()`.  On Ok(stream) the request
\* is read with Request::from: when it parsed, handle_request is entered
\* (LOCAL_SERVER.with(..) of the accept thread, initialised by find_server on
\* the thread's first use); when it did not, the loop goes on to
\* respond_with_error.  On Err the connection is lost (its client reads
\* nothing) and the loop takes the next one.
Accept(a, ok) ==
  /\ pc[a] = "listen"
  /\ conn[SlotOf(a)] # << >>
  /\ LET c == Head(conn[SlotOf(a)]) IN
       IF ok
       THEN /\ cur' = [cur EXCEPT ![a] = << c >>]
            /\ accepted' = [accepted EXCEPT ![a] = @ + 1]
            /\ pc' = [pc EXCEPT ![a] = IF ~c.req.ok THEN "respond_err"
                                       ELSE IF bound[a] = None THEN "scan" ELSE "match"]
       ELSE /\ pc' = [pc EXCEPT ![c.client] = "ready"]
            /\ UNCHANGED << cur, accepted >>
  /\ conn' = [conn EXCEPT ![SlotOf(a)] = Tail(@)]
  /\ UNCHANGED << holder, listening_addr, mocks, unmatched_requests, bound, scanIdx, via,
                  sel, got, budget, chan, loops, written, handled >>

\* Mutant of handle_request: the selected mock's hits are not incremented
handle_request_no_increment(a) ==
  /\ pc[a] = "match"
  /\ LET mock == select_mock(mocks[bound[a]], cur[a][1].req)
     IN  /\ sel' = [sel EXCEPT ![a] = mock]
         /\ pc' = [pc EXCEPT ![a] = IF mock # 0 THEN "respond_mock" ELSE "respond_nf"]
  /\ UNCHANGED << holder, listening_addr, mocks, unmatched_requests, bound, scanIdx, via,
                  conn, cur, got, budget, chan, loops, accepted, written, handled >>

\* handle_request up to the response: the mock is selected among the mocks of
\* the server in the thread's LOCAL_SERVER and its hits are incremented
handle_request(a) ==
  /\ pc[a] = "match"
  /\ LET s == bound[a]
         request == cur[a][1].req
         mock == select_mock(mocks[s], request)
     IN  /\ sel' = [sel EXCEPT ![a] = mock]
         /\ IF mock # 0
            THEN /\ mocks' = [mocks EXCEPT ![s][mock].hits = @ + 1]
                 /\ pc' = [pc EXCEPT ![a] = "respond_mock"]
            ELSE /\ pc' = [pc EXCEPT ![a] = "respond_nf"]
                 /\ UNCHANGED mocks
  /\ UNCHANGED << holder, listening_addr, unmatched_requests, bound, scanIdx, via, conn,
                  cur, got, budget, chan, loops, accepted, written, handled >>

\* Mutant of respond_with_mock: the hit is taken back when the write fails
respond_with_mock_undo_on_error(a, io) ==
  /\ pc[a] = "respond_mock"
  /\ LET c == cur[a][1].client
         request == cur[a][1].req
         mock == mocks[bound[a]][sel[a]]
         skip_body == request.method = "HEAD"
         w == respond_bytes(request.version, mock.response.status,
                            Some(mock.response.headers),
                            IF skip_body THEN << >> ELSE Some(mock.response.body), io)
     IN  /\ got' = [got EXCEPT ![c] = w]
         /\ mocks' = IF w.result = "Err"
                     THEN [mocks EXCEPT ![bound[a]][sel[a]].hits = @ - 1]
                     ELSE mocks
         /\ pc' = [pc EXCEPT ![a] = "listen", ![c] = "ready"]
  /\ cur' = [cur EXCEPT ![a] = << >>]
  /\ sel' = [sel EXCEPT ![a] = 0]
  /\ written' = [written EXCEPT ![a] = @ + 1]
  /\ handled' = [handled EXCEPT ![a] = @ + 1]
  /\ UNCHANGED << holder, listening_addr, unmatched_requests, bound, scanIdx, via,
                  conn, budget, chan, loops, accepted >>

\* Mutant of respond_with_mock: the body is sent for HEAD requests too
respond_with_mock_sends_body(a, io) ==
  /\ pc[a] = "respond_mock"
  /\ LET c == cur[a][1].client
         request == cur[a][1].req
         mock == mocks[bound[a]][sel[a]]
     IN  /\ got' = [got EXCEPT ![c] =
                      respond_bytes(request.version, mock.response.status,
                                    Some(mock.response.headers),
                                    Some(mock.response.body), io)]
         /\ pc' = [pc EXCEPT ![a] = "listen", ![c] = "ready"]
  /\ cur' = [cur EXCEPT ![a] = << >>]
  /\ sel' = [sel EXCEPT ![a] = 0]
  /\ written' = [written EXCEPT ![a] = @ + 1]
  /\ handled' = [handled EXCEPT ![a] = @ + 1]
  /\ UNCHANGED << holder, listening_addr, mocks, unmatched_requests, bound, scanIdx, via,
                  conn, budget, chan, loops, accepted >>

\* respond_with_mock(stream, request.version, mock, request.is_head()): the
\* body is None when skip_body; an Err of respond_bytes is reported on stderr
\* and dropped.  handle_request returns, the stream is dropped and the loop
\* takes the next connection.
respond_with_mock(a, io) ==
  /\ pc[a] = "respond_mock"
  /\ LET c == cur[a][1].client
         request == cur[a][1].req
         mock == mocks[bound[a]][sel[a]]
         skip_body == request.method = "HEAD"
     IN  /\ got' = [got EXCEPT ![c] =
                      respond_bytes(request.version, mock.response.status,
                                    Some(mock.response.headers),
                                    IF skip_body THEN << >> ELSE Some(mock.response.body),
                                    io)]
         /\ pc' = [pc EXCEPT ![a] = "listen", ![c] = "ready"]
  /\ cur' = [cur EXCEPT ![a] = << >>]
  /\ sel' = [sel EXCEPT ![a] = 0]
  /\ written' = [written EXCEPT ![a] = @ + 1]
  /\ handled' = [handled EXCEPT ![a] = @ + 1]
  /\ UNCHANGED << holder, listening_addr, mocks, unmatched_requests, bound, scanIdx, via,
                  conn, budget, chan, loops, accepted >>

\* Mutant of respond_with_mock_not_found: the 501 has no content-length header
\* and the request is logged only when the response was written
respond_with_mock_not_found_bare(a, io) ==
  /\ pc[a] = "respond_nf"
  /\ LET c == cur[a][1].client
         request == cur[a][1].req
         w == respond(request.version, "501 Mock Not Found", << >>, << >>, io)
     IN  /\ got' = [got EXCEPT ![c] = w]
         /\ IF w.result = "Ok"
            THEN /\ pc' = [pc EXCEPT ![a] = "push", ![c] = "ready"]
                 /\ UNCHANGED << cur, handled >>
            ELSE /\ pc' = [pc EXCEPT ![a] = "listen", ![c] = "ready"]
                 /\ cur' = [cur EXCEPT ![a] = << >>]
                 /\ handled' = [handled EXCEPT ![a] = @ + 1]
  /\ written' = [written EXCEPT ![a] = @ + 1]
  /\ UNCHANGED << holder, listening_addr, mocks, unmatched_requests, bound, scanIdx, via,
                  conn, sel, budget, chan, loops, accepted >>

\* respond_with_mock_not_found(stream, request.version): respond(stream,
\* version, "501 Mock Not Found", Some(&vec![("content-length", "0")]), None);
\* the stream is dropped when respond returns
respond_with_mock_not_found(a, io) ==
  /\ pc[a] = "respond_nf"
  /\ LET c == cur[a][1].client
         request == cur[a][1].req
     IN  /\ got' = [got EXCEPT ![c] =
                      respond(request.version, "501 Mock Not Found",
                              Some(<< << "content-length", "0" >> >>), << >>, io)]
         /\ pc' = [pc EXCEPT ![a] = "push", ![c] = "ready"]
  /\ written' = [written EXCEPT ![a] = @ + 1]
  /\ UNCHANGED << holder, listening_addr, mocks, unmatched_requests, bound, scanIdx, via,
                  conn, cur, sel, budget, chan, loops, accepted, handled >>

\* server.unmatched_requests.push(request); handle_request returns
PushUnmatched(a) ==
  /\ pc[a] = "push"
  /\ unmatched_requests' = [unmatched_requests EXCEPT ![bound[a]] = Append(@, cur[a][1].req)]
  /\ cur' = [cur EXCEPT ![a] = << >>]
  /\ pc' = [pc EXCEPT ![a] = "listen"]
  /\ handled' = [handled EXCEPT ![a] = @ + 1]
  /\ UNCHANGED << holder, listening_addr, mocks, bound, scanIdx, via, conn, sel, got,
                  budget, chan, loops, accepted, written >>

\* request.error().map_or("Could not parse the request.", |err| err.as_str())
ErrorMessage(request) ==
  IF request.error = << >> THEN "Could not parse the request." ELSE request.error[1]

\* Mutant of respond_with_error: the request that did not parse is handed to
\* handle_request's matching after the 422
respond_with_error_then_match(a, io) ==
  /\ pc[a] = "respond_err"
  /\ LET c == cur[a][1].client
         request == cur[a][1].req
     IN  /\ got' = [got EXCEPT ![c] =
                      respond(request.version, "422 Mock Error", << >>,
                              Some(ErrorMessage(request)), io)]
         /\ pc' = [pc EXCEPT ![a] = IF bound[a] = None THEN "scan" ELSE "match", ![c] = "ready"]
  /\ written' = [written EXCEPT ![a] = @ + 1]
  /\ UNCHANGED << holder, listening_addr, mocks, unmatched_requests, bound, scanIdx, via,
                  conn, cur, sel, budget, chan, loops, accepted, handled >>

\* The else branch of the accept loop: respond_with_error(stream,
\* request.version, message), that is respond(stream, version,
\* "422 Mock Error", None, Some(message)); the loop takes the next connection
respond_with_error(a, io) ==
  /\ pc[a] = "respond_err"
  /\ LET c == cur[a][1].client
         request == cur[a][1].req
     IN  /\ got' = [got EXCEPT ![c] =
                      respond(request.version, "422 Mock Error", << >>,
                              Some(ErrorMessage(request)), io)]
         /\ pc' = [pc EXCEPT ![a] = "listen", ![c] = "ready"]
  /\ cur' = [cur EXCEPT ![a] = << >>]
  /\ written' = [written EXCEPT ![a] = @ + 1]
  /\ UNCHANGED << holder, listening_addr, mocks, unmatched_requests, bound, scanIdx, via,
                  conn, sel, budget, chan, loops, accepted, handled >>

\* --------------------------------------------------------- specification
Next ==
  \/ \E t \in Threads : find_server_try_lock(t)
  \/ \E t \in Threads : find_server_lock(t)
  \/ \E t \in Tests : \E m \in PoolTemplates(t) : Register(t, m)
  \/ \E t \in Tests : address(t)
  \/ \E a \in AccThreads : \E ok \in BOOLEAN : bind(a, ok)
  \/ \E t \in Tests : try_start_recv(t)
  \/ \E t \in Tests : \E r \in PoolRequests : SendRequest(t, r)
  \/ \E t \in Tests : Terminate(t)
  \/ \E a \in AccThreads : Accept(a, TRUE)
  \/ \E a \in AccThreads : handle_request(a)
  \/ \E a \in AccThreads : \E io \in PoolIO : respond_with_mock(a, io)
  \/ \E a \in AccThreads : \E io \in PoolIO : respond_with_mock_not_found(a, io)
  \/ \E a \in AccThreads : PushUnmatched(a)

Spec == Init /\ [][Next]_vars

\* ------------------------------------------- the matching specification
\* Mock lists of at most n mocks registered by thread t
RECURSIVE MockLists(_, _)
MockLists(t, n) ==
  IF n = 0 THEN { << >> }
  ELSE LET shorter == MockLists(t, n - 1)
       IN  shorter \cup { Append(l, m) : l \in { x \in shorter : Len(x) = n - 1 },
                                          m \in Templates(t) }

\* The pool after test thread 2 took slot 1, registered the mocks of list l
\* there and ended, and test thread 1 took slot 0 and called address(): server
\* 0 listens, its accept thread has served nothing yet.  Other test threads
\* ended without using the pool.  The test threads may send n requests.
Started(l, n) ==
  /\ holder = [s \in Slots |-> IF s = 0 THEN 1 ELSE None]
  /\ listening_addr = [s \in Slots |-> IF s = 0 THEN 0 ELSE None]
  /\ mocks = [s \in Slots |-> IF s = 1 THEN l ELSE << >>]
  /\ unmatched_requests = [s \in Slots |-> << >>]
  /\ pc = [t \in Threads |-> IF t = 1 THEN "ready"
                              ELSE IF t \in Tests THEN "done"
                              ELSE IF t = Acc(0) THEN "listen" ELSE "none"]
  /\ bound = [t \in Threads |-> IF t = 1 THEN 0 ELSE IF t = 2 THEN 1 ELSE None]
  /\ scanIdx = [t \in Threads |-> IF t = 2 THEN 1 ELSE 0]
  /\ via = [t \in Threads |-> IF t \in {1, 2} THEN "try" ELSE "none"]
  /\ conn = [s \in Slots |-> << >>]
  /\ cur = [a \in AccThreads |-> << >>]
  /\ sel = [a \in AccThreads |-> 0]
  /\ got = [t \in Tests |-> NoResponse]
  /\ budget = n
  /\ chan = [s \in Slots |-> << >>]
  /\ loops = [s \in Slots |-> IF s = 0 THEN 1 ELSE 0]
  /\ accepted = [a \in AccThreads |-> 0]
  /\ written = [a \in AccThreads |-> 0]
  /\ handled = [a \in AccThreads |-> 0]

MatchInit == \E l \in MockLists(2, MaxList) : Started(l, MatchReqs)

MatchNext ==
  \/ \E t \in Tests : \E r \in MatchRequests : SendRequest(t, r)
  \/ \E a \in AccThreads : Accept(a, TRUE)
  \/ \E t \in Threads : find_server_try_lock(t)
  \/ \E a \in AccThreads : handle_request(a)
  \/ \E a \in AccThreads : \E io \in PoolIO : respond_with_mock(a, io)
  \/ \E a \in AccThreads : \E io \in PoolIO : respond_with_mock_not_found(a, io)
  \/ \E a \in AccThreads : PushUnmatched(a)

MatchSpec == MatchInit /\ [][MatchNext]_vars

\* ---------------------------------------------- the writer specification
\* Response headers a mock is given: a content-length that differs from the
\* body's length, the same field in another case, and an unrelated field
WireHeaders == { << "content-length", "7" >>, << "Content-Length", "7" >>,
                 << "x-served-by", "mock" >> }

\* The header lists of at most n headers
RECURSIVE HeaderLists(_)
HeaderLists(n) ==
  IF n = 0 THEN { << >> }
  ELSE LET shorter == HeaderLists(n - 1)
       IN  shorter \cup { Append(l, h) : l \in { x \in shorter : Len(x) = n - 1 },
                                          h \in WireHeaders }

\* Response bodies a mock is given: fixed buffers, and producers that write one
\* chunk and return Ok or Err
WireBodies == { Bytes("hello"), Bytes(""),
                Fn(Producer(<< "hi" >>, "Ok")), Fn(Producer(<< "hi" >>, "Err")) }

\* The mocks of the writer specification: GET /a or HEAD /a, no bounds
WireTemplates ==
  { [method |-> method, path |-> "/a", headers |-> {}, bodyMatcher |-> "Any",
     at_least |-> None, at_most |-> None, hits |-> 0,
     response |-> [status |-> "200 OK", headers |-> hs, body |-> b]] :
      method \in {"GET", "HEAD"}, hs \in HeaderLists(MaxHeaders), b \in WireBodies }

\* The streams read under the writer specification
WireRequests == Requests \cup BadRequests

\* As MatchInit, with no mock or one mock of the writer specification
WireInit == \E l \in { << >> } \cup { << m >> : m \in WireTemplates } : Started(l, WireReqs)

WireNext ==
  \/ \E t \in Tests : \E r \in WireRequests : SendRequest(t, r)
  \/ \E a \in AccThreads : \E ok \in BOOLEAN : Accept(a, ok)
  \/ \E t \in Threads : find_server_try_lock(t)
  \/ \E a \in AccThreads : handle_request(a)
  \/ \E a \in AccThreads : \E io \in IO : respond_with_mock(a, io)
  \/ \E a \in AccThreads : \E io \in IO : respond_with_mock_not_found(a, io)
  \/ \E a \in AccThreads : PushUnmatched(a)
  \/ \E a \in AccThreads : \E io \in IO : respond_with_error(a, io)

WireSpec == WireInit /\ [][WireNext]_vars

\* ------------------------------------------------ the fair specification
\* Every thread that can take a step of the library code eventually takes it
\* (the OS schedules every runnable thread), and every test thread that can end
\* eventually ends.  What a test registers or sends is left to the test.
Fairness ==
  /\ \A t \in Threads : WF_vars(find_server_try_lock(t)) /\ WF_vars(find_server_lock(t))
  /\ \A t \in Tests : WF_vars(Terminate(t)) /\ WF_vars(try_start_recv(t))
  /\ \A a \in AccThreads :
       /\ WF_vars(\E ok \in BOOLEAN : bind(a, ok))
       /\ WF_vars(Accept(a, TRUE))
       /\ WF_vars(handle_request(a))
       /\ WF_vars(\E io \in PoolIO : respond_with_mock(a, io))
       /\ WF_vars(\E io \in PoolIO : respond_with_mock_not_found(a, io))
       /\ WF_vars(PushUnmatched(a))

FairSpec == Init /\ [][Next]_vars /\ Fairness

\* ================================================================ claims
\* Threads whose LOCAL_SERVER guard is alive
Alive(t) == bound[t] # None /\ pc[t] # "done"

\* Accept threads inside handle_request's closure (LOCAL_SERVER borrowed)
Handling(a) == pc[a] \in {"match", "respond_mock", "respond_nf", "push"}

\* C1: every request sent to server S is handled against S itself: the accept
\* thread spawned by S.try_start matches against (and mutates) the server of
\* the slot that spawned it.
C1_HandledOnOwnServer ==
  \A a \in AccThreads : Handling(a) => bound[a] = SlotOf(a)

\* C2: pool isolation: a mock response read by a test thread comes from a mock
\* of that thread's own server, never from a mock of another slot.
C2_OwnMockOnly ==
  \A t \in Tests :
    (got[t].head # << >> /\ got[t].head[1] = StatusLine(<<1, 1>>, "200 OK")
       /\ bound[t] # None) =>
      \E i \in DOMAIN mocks[bound[t]] : << mocks[bound[t]][i].response.body.bytes >> = got[t].body

\* The hits of the mocks of server s, in list order
Hits(ms) == [i \in DOMAIN ms |-> ms[i].hits]

\* C3: mutual exclusion: at most one live thread holds the guard of a slot, the
\* slot's lock names that thread, and every step that changes hits or the
\* unmatched log of a server is a step of the thread holding that server's
\* lock, which keeps holding it.
C3_OneGuardPerSlot ==
  \A s \in Slots :
    LET guards == { t \in Threads : Alive(t) /\ bound[t] = s }
    IN  /\ Cardinality(guards) <= 1
        /\ \A t \in guards : holder[s] = t
        /\ guards = {} => holder[s] = None

C3_MutationUnderLock ==
  \A s \in Slots :
    (Hits(mocks'[s]) # Hits(mocks[s]) \/ unmatched_requests'[s] # unmatched_requests[s]) =>
      /\ holder[s] # None
      /\ holder'[s] = holder[s]
      /\ bound[holder[s]] = s
      /\ \A t \in Threads : pc'[t] # pc[t] => t = holder[s]

C3_MutualExclusion == [](C3_OneGuardPerSlot) /\ [][C3_MutationUnderLock]_vars

\* C3 witness: a thread that came to slot 0 through the blocking fallback holds
\* it and has changed that server's unmatched log or hits under the lock.
C3_Witness ==
  \E t \in Threads :
    /\ via[t] = "block" /\ holder[0] = t
    /\ \/ unmatched_requests[0] # << >>
       \/ \E i \in DOMAIN mocks[0] : mocks[0][i].hits > 0

\* C4: find_server binds a thread to the first slot whose try_lock succeeds,
\* trying the slots in index order; it blocks on slot 0 only after every
\* try_lock failed; a blocking acquisition binds to slot 0 only, and a bound
\* live thread holds the lock of its slot.
C4_FindServerOrder ==
  \A t \in Threads :
    /\ pc[t] = "scan" => bound[t] = None /\ scanIdx[t] \in Slots
    /\ pc[t] = "blocked" => bound[t] = None /\ scanIdx[t] = PoolSize
    /\ via[t] = "try" => bound[t] = scanIdx[t] /\ bound[t] \in Slots
    /\ via[t] = "block" => bound[t] = 0 /\ scanIdx[t] = PoolSize
    /\ via[t] = "none" <=> bound[t] = None
    /\ Alive(t) => holder[bound[t]] = t

\* C4 witness: one thread bound to a slot of index > 0 by try_lock after the
\* earlier slots failed, another bound to slot 0 by the blocking fallback.
C4_Witness ==
  \E t, u \in Threads :
    /\ via[t] = "try" /\ bound[t] > 0 /\ Alive(t)
    /\ via[u] = "block" /\ bound[u] = 0 /\ Alive(u)

\* C5: once a thread is bound to a slot it never runs find_server again, never
\* rebinds, and holds the slot's lock until it ends.
C5_StepKeepsBinding ==
  \A t \in Threads :
    bound[t] # None =>
      /\ bound'[t] = bound[t]
      /\ pc'[t] \notin {"scan", "blocked"}
      /\ pc[t] = "done" => pc'[t] = "done"
      /\ pc'[t] # "done" => holder'[bound[t]] = t

C5_BindingStable == [][C5_StepKeepsBinding]_vars

\* C5 witness: an accept thread, bound while serving an earlier request (which
\* left its mark on the bound server), is matching a later request.
C5_Witness ==
  \E a \in AccThreads :
    /\ pc[a] = "match" /\ bound[a] # None
    /\ \/ unmatched_requests[bound[a]] # << >>
       \/ \E i \in DOMAIN mocks[bound[a]] : mocks[bound[a]][i].hits > 0

\* C6: every thread that asks the pool for its server eventually obtains one.
C6_AcquireProgress ==
  \A t \in Threads : (pc[t] \in {"scan", "blocked"}) ~> (bound[t] # None)

\* The mocks of ms that match request r, as a set of indices, and the least
\* and greatest element of a non-empty set of indices
MatchSet(ms, r) == { i \in DOMAIN ms : Matches(ms[i], r) }
Least(S) == CHOOSE i \in S : \A j \in S : i <= j
Greatest(S) == CHOOSE i \in S : \A j \in S : j <= i

\* The step of accept thread a that selects the mock for its request
SelectStep(a) == pc[a] = "match" /\ pc'[a] # "match"

\* C7: mock selection: with Ms the mocks matching the request in registration
\* order, no mock is selected when Ms is empty; otherwise the first mock of Ms
\* that is missing hits is selected, and the last mock of Ms when none is.
C7_StepSelects ==
  \A a \in AccThreads :
    SelectStep(a) =>
      LET ms == mocks[bound[a]]
          Ms == MatchSet(ms, cur[a][1].req)
          Missing == { i \in Ms : is_missing_hits(ms[i]) }
      IN  sel'[a] = IF Ms = {} THEN 0
                    ELSE IF Missing # {} THEN Least(Missing)
                    ELSE Greatest(Ms)

C7_Selection == [][C7_StepSelects]_vars

\* C7 witness: two mocks match the request, none was missing hits when the
\* request was matched, and the second (last) one has been selected.
C7_Witness ==
  \E a \in AccThreads :
    /\ pc[a] = "respond_mock" /\ sel[a] = 2
    /\ LET ms == mocks[bound[a]]
       IN  /\ MatchSet(ms, cur[a][1].req) = {1, 2}
           /\ ~is_missing_hits(ms[1])
           /\ ~is_missing_hits([ms[2] EXCEPT !.hits = @ - 1])

\* Mocks i < j of one list with the same matcher fields
SameMatcher(m, n) ==
  /\ m.method = n.method /\ m.path = n.path
  /\ m.headers = n.headers /\ m.bodyMatcher = n.bodyMatcher

\* The number of hits from which a mock is no longer missing hits
Ceiling(m) ==
  IF m.at_most # None THEN m.at_most ELSE IF m.at_least # None THEN m.at_least ELSE 1

\* C8: among mocks registered in order with the same matcher, a later mock has
\* a hit only when every earlier one is no longer missing hits, an earlier one
\* is never served beyond its ceiling (further requests go to the last), and a
\* request that some mock matches is never answered with 501.
C8_ExhaustInOrder ==
  \A s \in Slots :
    LET ms == mocks[s] IN
    /\ \A i, j \in DOMAIN ms :
         (i < j /\ SameMatcher(ms[i], ms[j])) =>
           /\ ms[j].hits > 0 => ~is_missing_hits(ms[i])
           /\ ms[i].hits <= Ceiling(ms[i])
    /\ \A a \in AccThreads :
         (bound[a] = s /\ pc[a] = "respond_nf") => MatchSet(ms, cur[a][1].req) = {}

\* C8, per request: the mock that receives the hit is preceded only by matching
\* mocks that are no longer missing hits, and a request with a matching mock
\* goes on to a mock response.
C8_StepServes ==
  \A a \in AccThreads :
    SelectStep(a) =>
      LET ms == mocks[bound[a]]
          Ms == MatchSet(ms, cur[a][1].req)
      IN  /\ \A j \in DOMAIN ms :
               mocks'[bound[a]][j].hits > ms[j].hits =>
                 \A i \in Ms : i < j => ~is_missing_hits(ms[i])
          /\ Ms # {} => /\ pc'[a] = "respond_mock"
                        /\ \E j \in Ms : mocks'[bound[a]][j].hits = ms[j].hits + 1

C8_UnderServedFirst == [](C8_ExhaustInOrder) /\ [][C8_StepServes]_vars

\* C8 witness: two mocks with the same matcher, the first served up to its
\* ceiling, the second served beyond its own.
C8_Witness ==
  \E s \in Slots :
    /\ Len(mocks[s]) = 2
    /\ SameMatcher(mocks[s][1], mocks[s][2])
    /\ mocks[s][1].hits = Ceiling(mocks[s][1])
    /\ mocks[s][2].hits > Ceiling(mocks[s][2])

\* C9: is_missing_hits is hits < at_most when at_most is set (with or without
\* at_least), hits < at_least when only at_least is set, and hits < 1, that is
\* hits = 0, when no bound is set.
C9_MissingHits ==
  \A s \in Slots : \A i \in DOMAIN mocks[s] :
    LET m == mocks[s][i] IN
    /\ (m.at_least # None /\ m.at_most # None) => (is_missing_hits(m) <=> m.hits < m.at_most)
    /\ (m.at_least # None /\ m.at_most = None) => (is_missing_hits(m) <=> m.hits < m.at_least)
    /\ (m.at_least = None /\ m.at_most # None) => (is_missing_hits(m) <=> m.hits < m.at_most)
    /\ (m.at_least = None /\ m.at_most = None) => (is_missing_hits(m) <=> m.hits = 0)

\* C9 witness: a mock with both bounds set whose hits reached at_most but not
\* at_least, and an unbounded mock after its first hit.
C9_Witness ==
  \E s \in Slots : \E i, j \in DOMAIN mocks[s] :
    /\ mocks[s][i].at_least = 2 /\ mocks[s][i].at_most = 1 /\ mocks[s][i].hits = 1
    /\ mocks[s][j].at_least = None /\ mocks[s][j].at_most = None /\ mocks[s][j].hits = 1

\* C10: handling a matched request adds exactly 1 to the hits of the selected
\* mock before the response is written (the client is still waiting), and
\* changes neither another mock, nor the list's length or order, nor any
\* unmatched log; writing the response changes none of them.
C10_StepEffect ==
  \A a \in AccThreads :
    /\ (SelectStep(a) /\ sel'[a] # 0) =>
         /\ sel'[a] \in DOMAIN mocks[bound[a]]
         /\ mocks' = [mocks EXCEPT ![bound[a]][sel'[a]].hits = @ + 1]
         /\ unmatched_requests' = unmatched_requests
         /\ got' = got
         /\ pc'[cur[a][1].client] = "wait"
    /\ (pc[a] = "respond_mock" /\ pc'[a] # "respond_mock") =>
         /\ mocks' = mocks
         /\ unmatched_requests' = unmatched_requests
         /\ got'[cur[a][1].client].head[1] =
              StatusLine(cur[a][1].req.version, mocks[bound[a]][sel[a]].response.status)

C10_MatchedEffect == [][C10_StepEffect]_vars

\* C10 witness: the first of two mocks has been selected and incremented for
\* the second time, the other mock is untouched, the response is not written.
C10_Witness ==
  \E a \in AccThreads :
    /\ pc[a] = "respond_mock" /\ sel[a] = 1
    /\ Len(mocks[bound[a]]) = 2
    /\ mocks[bound[a]][1].hits = 2 /\ mocks[bound[a]][2].hits = 0
    /\ pc[cur[a][1].client] = "wait"

\* The step of accept thread a that writes a response, and the client of the
\* connection thread a is serving
RespondStep(a, at) == pc[a] = at /\ pc'[a] # at
Client(a) == cur[a][1].client

\* The head of the 501 response for the versions of the model, byte for byte
NotFoundHead(version) ==
  IF version = <<1, 1>>
  THEN << "HTTP/1.1 501 Mock Not Found\r\n", "content-length: 0\r\n", "\r\n" >>
  ELSE << "HTTP/1.0 501 Mock Not Found\r\n", "content-length: 0\r\n", "\r\n" >>

\* C11: a request that no mock matches: no mock's hits change; the client is
\* sent exactly the status line "HTTP/<major>.<minor> 501 Mock Not Found" with
\* the request's version, the single header "content-length: 0", a blank line
\* and no body byte (nothing at all when the write fails); then the request is
\* appended at the end of the unmatched_requests log of the handling thread's
\* server, whose earlier entries, like every other log, stay as they are.
C11_StepEffect ==
  \A a \in AccThreads :
    /\ (SelectStep(a) /\ sel'[a] = 0) =>
         /\ MatchSet(mocks[bound[a]], cur[a][1].req) = {}
         /\ pc'[a] = "respond_nf"
         /\ mocks' = mocks /\ unmatched_requests' = unmatched_requests /\ got' = got
    /\ RespondStep(a, "respond_nf") =>
         /\ pc'[a] = "push"
         /\ mocks' = mocks /\ unmatched_requests' = unmatched_requests
         /\ got'[Client(a)].body = << >>
         /\ got'[Client(a)].head \in { << >>, NotFoundHead(cur[a][1].req.version) }
         /\ got'[Client(a)].result = "Ok" =>
              got'[Client(a)].head = NotFoundHead(cur[a][1].req.version)
    /\ RespondStep(a, "push") =>
         /\ mocks' = mocks
         /\ unmatched_requests' =
              [unmatched_requests EXCEPT ![bound[a]] = Append(@, cur[a][1].req)]
         /\ pc'[a] = "listen"

C11_UnmatchedEffect == [][C11_StepEffect]_vars

\* C11 witness: two requests went unmatched: the log holds both in the order
\* they came, and the client of the second, an HTTP/1.0 request, has read the
\* 501 with its own version.
C11_Witness ==
  \E s \in Slots : \E t \in Tests :
    /\ Len(unmatched_requests[s]) = 2
    /\ unmatched_requests[s][1].version = <<1, 1>>
    /\ unmatched_requests[s][2].version = <<1, 0>>
    /\ got[t].result = "Ok"
    /\ got[t].head = << "HTTP/1.0 501 Mock Not Found\r\n", "content-length: 0\r\n", "\r\n" >>
    /\ got[t].body = << >>

\* C12: a request that did not parse goes from the accept straight to the 422
\* and from there to the next connection, never through the matcher: the
\* client is sent the status line with "422 Mock Error", one header, the
\* content-length of the message, a blank line and the message (the parser's
\* diagnostic, or "Could not parse the request." when there is none); no mock,
\* no unmatched log and no count of handled requests changes; and only parsed
\* requests are ever in the matcher.
C12_StepEffect ==
  \A a \in AccThreads :
    /\ (pc[a] = "listen" /\ cur'[a] # << >> /\ ~cur'[a][1].req.ok) => pc'[a] = "respond_err"
    /\ RespondStep(a, "respond_err") =>
         LET request == cur[a][1].req
             message == IF request.error = << >> THEN "Could not parse the request."
                        ELSE request.error[1]
             w == got'[Client(a)]
         IN  /\ pc'[a] = "listen" /\ cur'[a] = << >>
             /\ mocks' = mocks /\ unmatched_requests' = unmatched_requests
             /\ handled' = handled /\ sel' = sel /\ bound' = bound
             /\ w.head \in { << >>, << "HTTP/1.1 422 Mock Error\r\n",
                                      "content-length: " \o ToString(Len(message)) \o "\r\n",
                                      "\r\n" >> }
             /\ w.body \in { << >>, << message >> }
             /\ w.result = "Ok" => w.head # << >> /\ w.body = << message >>

C12_OnlyParsedMatched ==
  \A a \in AccThreads :
    /\ pc[a] \in {"scan", "blocked", "match", "respond_mock", "respond_nf", "push"} =>
         cur[a][1].req.ok
    /\ pc[a] = "respond_err" => ~cur[a][1].req.ok

C12_ParseFailure == [](C12_OnlyParsedMatched) /\ [][C12_StepEffect]_vars

\* C12 witness: a stream that did not parse and had no diagnostic was answered
\* with the fallback message, and the connection before it was handled: the
\* accept thread has handled one request and written two responses.
C12_Witness ==
  \E a \in AccThreads : \E t \in Tests :
    /\ handled[a] = 1 /\ written[a] = 2 /\ pc[a] = "listen"
    /\ got[t].result = "Ok"
    /\ got[t].head = << "HTTP/1.1 422 Mock Error\r\n", "content-length: 28\r\n", "\r\n" >>
    /\ got[t].body = << "Could not parse the request." >>

\* C13: try_start on a listening server spawns no thread, sends nothing and
\* leaves the address as it is: once set, the address of a server never
\* changes, whichever thread owns the slot; and at most one thread ever
\* entered the accept loop of a server, the one whose address is listened on.
C13_OneLoop ==
  \A s \in Slots :
    /\ loops[s] <= 1
    /\ listening_addr[s] # None => listening_addr[s] = s /\ loops[s] = 1
                                    /\ pc[Acc(s)] \notin {"none", "bind"}

C13_StepKeepsAddress ==
  \A s \in Slots :
    listening_addr[s] # None =>
      /\ listening_addr'[s] = listening_addr[s]
      /\ pc'[Acc(s)] \notin {"none", "bind"}
      /\ chan'[s] = << >> /\ loops'[s] = loops[s]
      /\ \A t \in Tests : pc'[t] # "recv" \/ bound[t] # s

C13_StartOnce == [](C13_OneLoop) /\ [][C13_StepKeepsAddress]_vars

\* C13 witness: the thread that started server s has ended; a second thread
\* owns the slot, has used the server's address and has read a response of
\* the one accept loop.
C13_Witness ==
  \E s \in Slots : \E t, u \in Tests :
    /\ t # u /\ bound[t] = s /\ bound[u] = s
    /\ pc[t] = "done" /\ pc[u] = "ready" /\ holder[s] = u
    /\ listening_addr[s] = s /\ loops[s] = 1
    /\ got[u].result = "Ok" /\ got[t] = NoResponse

\* C14: try_start returns only after the spawned thread sent the outcome of
\* the bind.  When it sent an address, listening_addr is that address, the
\* address of the listener of the thread that now runs the accept loop, and
\* address() returns.  When it sent None, listening_addr stays unset, the
\* spawned thread has returned (no accept loop runs for the server) and
\* address() panics: the caller never gets an address.
C14_StepReturns ==
  \A t \in Tests :
    /\ (pc[t] = "recv" /\ pc'[t] # "recv") =>
         LET s == bound[t] IN
         /\ chan[s] # << >> /\ pc[Acc(s)] # "bind"
         /\ chan[s] # << None >> =>
              /\ listening_addr'[s] = SlotOf(Acc(s)) /\ pc'[t] = "ready"
              /\ pc'[Acc(s)] \notin {"none", "bind"} /\ loops[s] = 1
         /\ chan[s] = << None >> =>
              /\ listening_addr'[s] = None /\ pc'[t] = "panic"
              /\ pc'[Acc(s)] = "none" /\ loops[s] = 0
    /\ pc[t] = "panic" => pc'[t] \in {"panic", "done"}

C14_Blocked ==
  \A t \in Tests :
    /\ pc[t] = "recv" => listening_addr[bound[t]] = None /\ holder[bound[t]] = t
    /\ pc[t] = "panic" => /\ listening_addr[bound[t]] = None
                          /\ pc[Acc(bound[t])] = "none" /\ loops[bound[t]] = 0
    /\ pc[t] = "wait" => listening_addr[bound[t]] = bound[t]

C14_Handoff == [](C14_Blocked) /\ [][C14_StepReturns]_vars

\* C14 witness: the bind failed for one server, whose owner panicked in
\* address(), and succeeded for another, whose owner got the address of the
\* listener on which the accept loop runs.
C14_Witness ==
  \E t, u \in Tests :
    /\ pc[t] = "panic" /\ listening_addr[bound[t]] = None /\ loops[bound[t]] = 0
    /\ pc[u] = "ready" /\ listening_addr[bound[u]] = bound[u]
    /\ pc[Acc(bound[u])] = "listen" /\ loops[bound[u]] = 1

\* The request and the response of the mock accept thread a is about to answer
Req(a) == cur[a][1].req
Resp(a) == mocks[bound[a]][sel[a]].response

\* The lines of head that are a content-length header with one of the values
LengthLines(head, values) ==
  { i \in DOMAIN head : \E v \in values : head[i] = "content-length: " \o v \o "\r\n" }

\* C15: content-length synthesis, for a response whose body is a fixed buffer:
\* the supplied headers are written in the order given right after the status
\* line; when none of them is named content-length, exactly one header
\* "content-length: <n>" follows them, n the number of bytes of the body; when
\* one is, nothing is synthesized: the content-length headers written are the
\* supplied ones, with the values given.  The name is compared as written, so
\* a header named Content-Length is not a header named content-length.
C15_StepWrites ==
  \A a \in AccThreads :
    (RespondStep(a, "respond_mock") /\ Req(a).method # "HEAD"
       /\ Resp(a).body.kind = "Bytes" /\ got'[Client(a)].head # << >>) =>
      LET hs == Resp(a).headers
          n == Len(hs)
          bytes == Resp(a).body.bytes
          head == got'[Client(a)].head
          named == { i \in 1 .. n : hs[i][1] = "content-length" }
          values == { hs[i][2] : i \in 1 .. n } \cup { ToString(Len(bytes)) }
      IN  /\ Len(head) >= n + 2
          /\ head[1] = "HTTP/1.1 200 OK\r\n"
          /\ \A i \in 1 .. n : head[i + 1] = hs[i][1] \o ": " \o hs[i][2] \o "\r\n"
          /\ head[Len(head)] = "\r\n"
          /\ named = {} =>
               /\ Len(head) = n + 3
               /\ head[n + 2] = "content-length: " \o ToString(Len(bytes)) \o "\r\n"
               /\ LengthLines(head, values) = {n + 2}
          /\ named # {} =>
               /\ Len(head) = n + 2
               /\ LengthLines(head, values) = { i + 1 : i \in named }
          /\ got'[Client(a)].body \in { << >>, << bytes >> }

C15_ContentLength == [][C15_StepWrites]_vars

\* C15 witness: a mock with one header, not named content-length, and a body
\* of five bytes has been served: its header comes first, the synthesized
\* content-length after it.
C15_Witness ==
  \E t \in Tests :
    /\ got[t].result = "Ok"
    /\ got[t].head = << "HTTP/1.1 200 OK\r\n", "x-served-by: mock\r\n",
                        "content-length: 5\r\n", "\r\n" >>
    /\ got[t].body = << "hello" >>

\* C16 as stated: a response with a producer body carries
\* "transfer-encoding: chunked", carries no content-length header, and its
\* body ends with the terminating chunk "0\r\n\r\n", for every header list
\* and every outcome of the producer callback.
C16_StepAlwaysTerminated ==
  \A a \in AccThreads :
    (RespondStep(a, "respond_mock") /\ Req(a).method # "HEAD"
       /\ Resp(a).body.kind = "Fn" /\ got'[Client(a)].head # << >>) =>
      LET w == got'[Client(a)]
          values == { Resp(a).headers[i][2] : i \in DOMAIN Resp(a).headers }
      IN  /\ \E i \in DOMAIN w.head : w.head[i] = "transfer-encoding: chunked\r\n"
          /\ LengthLines(w.head, values) = {}
          /\ w.cb_called
          /\ w.body # << >> /\ w.body[Len(w.body)] = "0\r\n\r\n"

C16_ChunkedAlways == [][C16_StepAlwaysTerminated]_vars

\* C16, amended: a response with a producer body carries the supplied headers
\* as given (a content-length among them included), then
\* "transfer-encoding: chunked" and no synthesized content-length; the producer
\* callback is called; when the writer returns Ok the body is the producer's
\* chunks, framed, followed by the terminating chunk "0\r\n\r\n"; when the
\* producer callback returns Err no terminating chunk is written and the
\* writer returns Err.
C16_StepChunked ==
  \A a \in AccThreads :
    (RespondStep(a, "respond_mock") /\ Req(a).method # "HEAD"
       /\ Resp(a).body.kind = "Fn" /\ got'[Client(a)].head # << >>) =>
      LET w == got'[Client(a)]
          hs == Resp(a).headers
          n == Len(hs)
          cb == Resp(a).body.cb
      IN  /\ Len(w.head) = n + 3
          /\ \A i \in 1 .. n : w.head[i + 1] = hs[i][1] \o ": " \o hs[i][2] \o "\r\n"
          /\ w.head[n + 2] = "transfer-encoding: chunked\r\n"
          /\ w.head[n + 3] = "\r\n"
          /\ w.cb_called
          /\ w.result = "Ok" =>
               /\ Len(w.body) = Len(cb.chunks) + 1
               /\ \A i \in DOMAIN cb.chunks : w.body[i] = Chunk(cb.chunks[i])
               /\ w.body[Len(w.body)] = "0\r\n\r\n"
          /\ cb.result = "Err" =>
               /\ w.result = "Err"
               /\ \A i \in DOMAIN w.body : w.body[i] # "0\r\n\r\n"

C16_Chunked == [][C16_StepChunked]_vars

\* C16 witness: a mock with a content-length header and a producer that
\* writes "hi" and returns Ok has been served: both headers are on the stream,
\* then the chunk and the terminating chunk.
C16_Witness ==
  \E t \in Tests :
    /\ got[t].result = "Ok"
    /\ got[t].head = << "HTTP/1.1 200 OK\r\n", "content-length: 7\r\n",
                        "transfer-encoding: chunked\r\n", "\r\n" >>
    /\ got[t].body = << "2\r\nhi\r\n", "0\r\n\r\n" >>

\* C17: a HEAD request that matches a mock: the mock's hits grow by 1; the
\* client is sent the status line of the mock, the mock's headers as given and
\* the blank line, nothing else (no content-length or transfer-encoding is
\* synthesized), and no body byte, and the producer callback of a producer
\* body is not called.
C17_StepHead ==
  \A a \in AccThreads :
    /\ (SelectStep(a) /\ Req(a).method = "HEAD" /\ sel'[a] # 0) =>
         mocks'[bound[a]][sel'[a]].hits = mocks[bound[a]][sel'[a]].hits + 1
    /\ (RespondStep(a, "respond_mock") /\ Req(a).method = "HEAD") =>
         LET w == got'[Client(a)]
             hs == Resp(a).headers
         IN  /\ w.body = << >> /\ ~w.cb_called
             /\ w.head \in { << >>,
                             << "HTTP/1.1 200 OK\r\n" >>
                               \o [i \in 1 .. Len(hs) |-> hs[i][1] \o ": " \o hs[i][2] \o "\r\n"]
                               \o << "\r\n" >> }
             /\ w.result = "Ok" => w.head # << >>

C17_HeadNoBody == [][C17_StepHead]_vars

\* C17 witness: a HEAD mock with a producer body and one header has been hit
\* once and its client has read the status line, the header and the blank line.
C17_Witness ==
  \E s \in Slots : \E t \in Tests :
    /\ Len(mocks[s]) = 1 /\ mocks[s][1].method = "HEAD" /\ mocks[s][1].hits = 1
    /\ mocks[s][1].response.body.kind = "Fn"
    /\ got[t].result = "Ok" /\ got[t].body = << >> /\ ~got[t].cb_called
    /\ got[t].head = << "HTTP/1.1 200 OK\r\n", "x-served-by: mock\r\n", "\r\n" >>

\* The positions of a thread inside the accept loop, and those between the
\* accept of a connection and the call of the response writer
InLoop == {"listen", "scan", "blocked", "match", "respond_mock", "respond_nf", "push",
           "respond_err"}
BeforeWrite == {"scan", "blocked", "match", "respond_mock", "respond_nf", "respond_err"}

\* C18: a thread in the accept loop stays in it; a failed accept calls no
\* writer and leaves the thread ready for the next connection; a parse failure
\* and a failed write lead back to the next connection as a successful write
\* does; and the writer has been called exactly once for every accepted
\* connection, the one being served excepted until its response is written.
C18_StepLoops ==
  \A a \in AccThreads :
    /\ pc[a] \in InLoop => pc'[a] \in InLoop
    /\ (pc[a] = "listen" /\ conn'[SlotOf(a)] # conn[SlotOf(a)] /\ accepted'[a] = accepted[a]
          /\ Len(conn'[SlotOf(a)]) < Len(conn[SlotOf(a)])) =>
         pc'[a] = "listen" /\ written'[a] = written[a]
    /\ written'[a] # written[a] =>
         /\ written'[a] = written[a] + 1
         /\ pc[a] \in {"respond_mock", "respond_nf", "respond_err"}
         /\ pc'[a] = IF pc[a] = "respond_nf" THEN "push" ELSE "listen"
    /\ pc[a] = "push" => pc'[a] \in {"push", "listen"}

C18_OncePerConnection ==
  \A a \in AccThreads :
    written[a] = accepted[a] - (IF pc[a] \in BeforeWrite THEN 1 ELSE 0)

C18_LoopSurvives == [](C18_OncePerConnection) /\ [][C18_StepLoops]_vars

\* C18 witness: of two connections the accept of the first failed (no writer
\* call), and the second was accepted and answered although the write of its
\* response failed at the flush; the thread waits for the next connection.
C18_Witness ==
  \E a \in AccThreads : \E t \in Tests :
    /\ budget = 0 /\ pc[a] = "listen" /\ conn[SlotOf(a)] = << >>
    /\ accepted[a] = 1 /\ written[a] = 1
    /\ got[t].result = "Err" /\ got[t].head # << >>

\* C19: every connection an accept loop accepted eventually has its response
\* written, whatever the state of the pool.
C19_ResponseProgress ==
  \A a \in AccThreads : (accepted[a] > written[a]) ~> (accepted[a] = written[a])

\* The sum of the hits of the mocks of a list
RECURSIVE SumHits(_)
SumHits(ms) == IF ms = << >> THEN 0 ELSE Head(ms).hits + SumHits(Tail(ms))

\* Hits plus unmatched requests of server s
Total(s) == SumHits(mocks[s]) + Len(unmatched_requests[s])

\* C20: for the server of an accept thread, the hits of its mocks plus the
\* length of its unmatched log is the number of calls of handle_request that
\* returned, plus one while a matched request waits for its response.  A step
\* changes the total of a server by 0 or 1, never lowers a mock's hits, and
\* never changes both hits and log; the total grows at the selection of a mock
\* or at the push, whatever the writer returned; accepting, answering a request
\* that did not parse and writing a response leave every total as it is.
C20_Accounted ==
  \A a \in AccThreads :
    IF bound[a] = None THEN handled[a] = 0
    ELSE Total(bound[a]) = handled[a] + (IF pc[a] = "respond_mock" THEN 1 ELSE 0)

C20_StepCounts ==
  \A s \in Slots :
    /\ Len(mocks'[s]) = Len(mocks[s]) =>
         \A i \in DOMAIN mocks[s] : mocks'[s][i].hits >= mocks[s][i].hits
    /\ SumHits(mocks'[s]) = SumHits(mocks[s]) \/ unmatched_requests'[s] = unmatched_requests[s]
    /\ Total(s)' - Total(s) \in {0, 1}
    /\ Total(s)' # Total(s) =>
         \E a \in AccThreads :
           /\ bound[a] = s
           /\ \/ SelectStep(a) /\ sel'[a] # 0
              \/ RespondStep(a, "push")
           /\ Req(a).ok
    /\ \A a \in AccThreads :
         (bound[a] = s /\ ((SelectStep(a) /\ sel'[a] # 0) \/ RespondStep(a, "push"))) =>
           Total(s)' = Total(s) + 1

C20_Accounting == [](C20_Accounted) /\ [][C20_StepCounts]_vars

\* C20 witness: two requests were handled on one server, one unmatched and one
\* matched whose response could not be written: one log entry, one hit.
C20_Witness ==
  \E a \in AccThreads : \E t \in Tests :
    /\ bound[a] # None /\ handled[a] = 2 /\ pc[a] = "listen"
    /\ Len(unmatched_requests[bound[a]]) = 1
    /\ SumHits(mocks[bound[a]]) = 1
    /\ got[t].result = "Err" /\ got[t].head = << >>

====
